---- MODULE Spec2Model ----
(***************************************************************************)
(* Stable roommates (Irving's two-phase algorithm) as implemented in       *)
(* src/stable-roommates.py: make_proposals, is_stable_table,               *)
(* remove_trailing_prefs, get_stable_match (find_cycle,                    *)
(* find_pairs_to_remove, remove_pairs) and find_stable_pairings.           *)
(*                                                                         *)
(* Participants are integers.  A preference table is a function from the   *)
(* participants (the dict's keys) to sequences (the dict's lists); "keys"  *)
(* is the dict's insertion order.  One step of the model is one pass of a  *)
(* loop body of the program (one proposal, one trimmed proposer, one       *)
(* extension of the rotation search, one removed pair), so a symmetric     *)
(* pair removal (two adjacent list.remove calls) is one step.              *)
(***************************************************************************)
EXTENDS Integers, Sequences, FiniteSets, TLC

\* ------------------------------------------------------------------------
\* Bounds of the model
\* ------------------------------------------------------------------------

\* Largest number of participants of the generated valid tables.
MaxN == 4

\* Number of participants (keys) of the malformed tables of SpecAny.
MalformedN == 3

\* Longest list of the malformed tables of SpecAny.
MalformedLen == 3

\* ------------------------------------------------------------------------
\* Python values and list operations
\* ------------------------------------------------------------------------

\* The empty string "" that make_proposals stores in an unset slot.
Unset == -1

\* Python truthiness of a slot value: "" is falsy, and so is the integer 0.
Falsy(v) == v = Unset \/ v = 0

Range(s) == {s[i] : i \in 1..Len(s)}

\* x in s
In(x, s) == x \in Range(s)

\* s.index(x), 1-based; 0 stands for ValueError (x is not in s).
Index(s, x) ==
  IF In(x, s) THEN CHOOSE i \in 1..Len(s) : s[i] = x /\ \A j \in 1..(i-1) : s[j] # x
  ELSE 0

\* s.remove(x): s without its first occurrence of x (s itself when x is absent;
\* the callers test the ValueError case with In).
Remove(s, x) ==
  LET k == Index(s, x)
  IN IF k = 0 THEN s
     ELSE [i \in 1..(Len(s)-1) |-> IF i < k THEN s[i] ELSE s[i+1]]

\* s[a:] with a 0-based start, as a 1-based sequence: entries a+1 .. Len(s).
SliceFrom(s, a) == IF a >= Len(s) THEN <<>> ELSE [i \in 1..(Len(s)-a) |-> s[i+a]]

\* Op applied to the value of e, with e evaluated once.  The recursive
\* operators below bind the table or list they carry from pass to pass this
\* way; TLC otherwise evaluates an argument again wherever it is used.
WithValue(e, Op(_)) == CHOOSE r \in {Op(v) : v \in {e}} : TRUE

\* s[:b]: the first b entries.
SliceTo(s, b) == IF b >= Len(s) THEN s ELSE [i \in 1..b |-> s[i]]

\* ------------------------------------------------------------------------
\* State
\* ------------------------------------------------------------------------

VARIABLES
  input,                  \* the table as the caller built it (never assigned)
  keys,                   \* insertion order of the table's keys
  preferences,            \* the dict the caller passed, mutated in place
  proposal_record,        \* participant -> <<proposal to, proposal from>>
  proposers,              \* make_proposals: the pending queue
  current_proposer,       \* make_proposals: the popped proposer
  current_proposer_prefs, \* make_proposals: the copy the for loop walks
  idx,                    \* position of the running for loop (1-based)
  participant,            \* get_stable_match: the participant of the for loop
  p,                      \* get_stable_match: p list
  q,                      \* get_stable_match: q list
  elimination_pairs,      \* get_stable_match: pairs handed to remove_pairs
  result,                 \* what the call produced: channel and value
  pc,                     \* position in the program
  labels,                 \* the names the table's keys carry in this call
  reference               \* outcome of the call on the table before renaming

vars == <<input, keys, preferences, proposal_record, proposers, current_proposer,
          current_proposer_prefs, idx, participant, p, q, elimination_pairs, result,
          pc, labels, reference>>

Participants == Range(keys)

NoResult == [channel |-> "none", value |-> "none"]

\* return preferences: the matching is the (mutated) table itself.
ReturnedTable == [channel |-> "return", value |-> "preferences"]

\* return UnstableTableError("No stable pairings possible"): an instance.
ReturnedInstance == [channel |-> "return", value |-> "UnstableTableError instance"]

\* return UnstableTableError: the exception class itself.
ReturnedClass == [channel |-> "return", value |-> "UnstableTableError class"]

\* An uncaught exception leaving find_stable_pairings.
Raised(e) == [channel |-> "raise", value |-> e]

\* No call has been made on the table before renaming.
NoReference == [result |-> NoResult, preferences |-> <<>>]

\* ------------------------------------------------------------------------
\* Inputs: preference tables
\* ------------------------------------------------------------------------

\* The other participants of k among 1..n, in ascending order.
Others(k, n) == [i \in 1..(n-1) |-> IF i < k THEN i ELSE i + 1]

Reverse(s) == [i \in 1..Len(s) |-> s[Len(s) + 1 - i]]

\* s rotated left by r places.
Rotate(s, r) == [i \in 1..Len(s) |-> s[((i + r - 1) % Len(s)) + 1]]

\* The rankings participant k of 1..n may hold: every rotation of the
\* ascending and of the descending order of the others.  A list of up to three
\* entries has no other orders, so for n <= 4 these are all strict rankings.
Rankings(k, n) ==
  {Rotate(Others(k, n), r) : r \in 0..(n-2)}
    \cup {Rotate(Reverse(Others(k, n)), r) : r \in 0..(n-2)}

RECURSIVE TablesUpTo(_, _)
\* Every table over participants 1..n restricted to the keys 1..k, in which
\* each key holds one of its rankings.
TablesUpTo(k, n) ==
  IF k = 0 THEN {<<>>}
  ELSE {Append(t, s) : t \in TablesUpTo(k-1, n), s \in Rankings(k, n)}

\* Valid tables over 1..n: every one of them for n <= 4.
ValidTables(n) == TablesUpTo(n, n)

\* The fixtures of the source, with A..F written 1..6 (insertion order).
unstable == <<
  <<2, 3, 4>>,
  <<3, 1, 4>>,
  <<1, 2, 4>>,
  <<2, 1, 3>> >>

stable_phase1 == <<
  <<2, 3, 4>>,
  <<1, 3, 4>>,
  <<4, 2, 1>>,
  <<3, 2, 1>> >>

stable_phase2 == <<
  <<3, 2, 4>>,
  <<1, 3, 4>>,
  <<4, 2, 1>>,
  <<2, 1, 3>> >>

medium == <<
  <<3, 4, 2, 6, 5>>,
  <<6, 5, 4, 1, 3>>,
  <<2, 4, 5, 1, 6>>,
  <<5, 2, 3, 6, 1>>,
  <<3, 1, 2, 4, 6>>,
  <<5, 1, 3, 4, 2>> >>

large == <<
  <<8, 2, 9, 3, 6, 4, 5, 7, 10>>,
  <<4, 3, 8, 9, 5, 1, 10, 6, 7>>,
  <<5, 6, 8, 2, 1, 7, 10, 4, 9>>,
  <<10, 7, 9, 3, 1, 6, 2, 5, 8>>,
  <<7, 4, 10, 8, 2, 6, 3, 1, 9>>,
  <<2, 8, 7, 3, 4, 10, 1, 5, 9>>,
  <<2, 1, 8, 3, 5, 10, 4, 6, 9>>,
  <<10, 4, 2, 5, 6, 7, 1, 3, 9>>,
  <<6, 7, 2, 5, 10, 3, 4, 8, 1>>,
  <<3, 1, 6, 5, 2, 9, 8, 4, 7>> >>

\* Charlie, Peter, Elise, Paul, Kelly, Sam written 1..6.
students == <<
  <<2, 4, 6, 5, 3>>,
  <<5, 3, 6, 4, 1>>,
  <<2, 6, 5, 1, 4>>,
  <<3, 1, 6, 2, 5>>,
  <<2, 1, 6, 3, 4>>,
  <<1, 4, 5, 3, 2>> >>

\* A valid six-participant table on which a Phase 2 removal empties a list.
exhausted6 == <<
  <<6, 5, 4, 3, 2>>,
  <<1, 4, 6, 5, 3>>,
  <<2, 1, 6, 4, 5>>,
  <<1, 6, 2, 5, 3>>,
  <<4, 3, 2, 6, 1>>,
  <<4, 5, 1, 2, 3>> >>

Fixtures == {unstable, stable_phase1, stable_phase2, medium, large, students}

\* A table is valid when every key strictly ranks every other key exactly once.
IsValidTable(t) ==
  \A k \in DOMAIN t :
    /\ Len(t[k]) = Cardinality(DOMAIN t) - 1
    /\ Range(t[k]) = DOMAIN t \ {k}

\* Two valid five-participant tables: on the first the Phase 1 check fails, on
\* the second a removal of the third elimination round of Phase 2 empties a
\* list.
odd_phase1 == <<
  <<3, 4, 2, 5>>,
  <<5, 4, 1, 3>>,
  <<5, 2, 1, 4>>,
  <<5, 3, 2, 1>>,
  <<2, 1, 3, 4>> >>

odd_phase2 == <<
  <<4, 2, 3, 5>>,
  <<5, 4, 1, 3>>,
  <<2, 5, 1, 4>>,
  <<5, 3, 2, 1>>,
  <<1, 3, 2, 4>> >>

\* The inputs of Spec: the valid tables of 2..MaxN participants (every valid
\* table of up to four participants), the fixtures, exhausted6 and the two
\* five-participant tables.
Inputs ==
  UNION {ValidTables(n) : n \in 2..MaxN} \cup Fixtures
    \cup {exhausted6, odd_phase1, odd_phase2}

\* Lists of length 1..MalformedLen over the keys and one name outside the table.
MalformedLists ==
  UNION {[1..len -> 1..(MalformedN+1)] : len \in 1..MalformedLen}

\* The inputs of SpecAny: the inputs of Spec and every table of MalformedN keys
\* with lists from MalformedLists (self references, repetitions, omissions and
\* names outside the table included).
AnyInputs == Inputs \cup [1..MalformedN -> MalformedLists]

InitWith(tables) ==
  /\ input \in tables
  /\ keys = [i \in 1..Len(input) |-> i]
  /\ preferences = input
  /\ proposal_record = <<>>
  /\ proposers = <<>>
  /\ current_proposer = Unset
  /\ current_proposer_prefs = <<>>
  /\ idx = 0
  /\ participant = Unset
  /\ p = <<>>
  /\ q = <<>>
  /\ elimination_pairs = <<>>
  /\ result = NoResult
  /\ pc = "call"
  /\ labels = [i \in 1..Len(input) |-> i]
  /\ reference = NoReference

Init == InitWith(Inputs)

InitAny == InitWith(AnyInputs)

\* ------------------------------------------------------------------------
\* Phase 1: make_proposals
\* ------------------------------------------------------------------------

\* find_stable_pairings calls make_proposals, which fills the queue with every
\* participant in table order and gives each an empty record.
CallMakeProposals ==
  /\ pc = "call"
  /\ proposers' = keys
  /\ proposal_record' = [k \in Participants |-> <<Unset, Unset>>]
  /\ pc' = "while"
  /\ UNCHANGED <<input, keys, labels, reference, preferences,
                 current_proposer, current_proposer_prefs, idx, participant,
                 p, q, elimination_pairs, result>>

\* while proposers: pop the front proposer and copy its current list.
PopProposer ==
  /\ pc = "while"
  /\ proposers # <<>>
  /\ current_proposer' = Head(proposers)
  /\ proposers' = Tail(proposers)
  /\ current_proposer_prefs' = preferences[Head(proposers)]
  /\ idx' = 1
  /\ pc' = "for"
  /\ UNCHANGED <<input, keys, labels, reference, preferences, proposal_record,
                 participant, p, q, elimination_pairs, result>>

\* The candidate the for loop is at.
Proposee == current_proposer_prefs[idx]

\* proposal_record[proposee][1]: the proposer the candidate holds.
ProposeeProposalFrom == proposal_record[Proposee][2]

\* The lookups of lines 59-60 succeed: the candidate is a key of the table and
\* the proposer is in the candidate's list.
ProposeLookupsOk ==
  /\ Proposee \in DOMAIN preferences
  /\ In(current_proposer, preferences[Proposee])

\* The for loop has a candidate to try and its lookups succeed.
AtProposal ==
  /\ pc = "for"
  /\ idx <= Len(current_proposer_prefs)
  /\ ProposeLookupsOk

\* Faulty variant of PrefersNewProposer: the comparison is turned round, so a
\* candidate gives up the proposer it holds for one it ranks lower.
PrefersHeldProposer ==
  Index(preferences[Proposee], ProposeeProposalFrom)
    < Index(preferences[Proposee], current_proposer)

\* Faulty variant of PrefersNewProposer: a candidate that holds a proposer
\* gives it up for whoever proposes next.
AlwaysPrefersNewProposer == TRUE

\* elif proposee_prefs.index(proposee_proposal_from) > current_proposer_ranking
PrefersNewProposer ==
  Index(preferences[Proposee], ProposeeProposalFrom)
    > Index(preferences[Proposee], current_proposer)

\* Faulty variant of RecordProposal: only the candidate's slot is written; the
\* proposer's outgoing slot is left as it was.
RecordProposalFromOnly(rec, proposer, proposee) ==
  [rec EXCEPT ![proposee] = <<@[1], proposer>>]

\* proposal_record[proposee][1] = current_proposer;
\* proposal_record[current_proposer][0] = proposee
RecordProposal(rec, proposer, proposee) ==
  LET r1 == [rec EXCEPT ![proposee] = <<@[1], proposer>>]
  IN [r1 EXCEPT ![proposer] = <<proposee, @[2]>>]

\* Faulty variant of RemovePair: only the first of the two removes is made.
RemovePairOneSided(prefs, a, b) == [prefs EXCEPT ![a] = Remove(@, b)]

\* Faulty variant of RemovePair: each entry is moved to the end of the list
\* instead of being dropped.
RemovePairDemoting(prefs, a, b) ==
  LET p1 == [prefs EXCEPT ![a] = Append(Remove(@, b), b)]
  IN [p1 EXCEPT ![b] = Append(Remove(@, a), a)]

\* preferences[a].remove(b); preferences[b].remove(a)
RemovePair(prefs, a, b) ==
  LET p1 == [prefs EXCEPT ![a] = Remove(@, b)]
  IN [p1 EXCEPT ![b] = Remove(@, a)]

\* Both removals of RemovePair find their element.
CanRemovePair(prefs, a, b) ==
  /\ In(b, prefs[a])
  /\ In(a, [prefs EXCEPT ![a] = Remove(@, b)][b])

\* Leaving the for loop (break, or the list is exhausted).
EndFor ==
  /\ current_proposer' = Unset
  /\ current_proposer_prefs' = <<>>
  /\ idx' = 0
  /\ pc' = "while"

\* if not proposee_proposal_from: the candidate holds nobody and accepts.
AcceptFirst ==
  /\ AtProposal
  /\ Falsy(ProposeeProposalFrom)
  /\ proposal_record' = RecordProposal(proposal_record, current_proposer, Proposee)
  /\ EndFor
  /\ UNCHANGED <<input, keys, labels, reference, preferences, proposers,
                 participant, p, q, elimination_pairs, result>>

\* Faulty variant of AcceptBetter: the proposer that loses its place is put at
\* the back of the queue (proposers.append) instead of the front.
AcceptBetterQueuedLast ==
  /\ AtProposal
  /\ ~Falsy(ProposeeProposalFrom)
  /\ In(ProposeeProposalFrom, preferences[Proposee])
  /\ PrefersNewProposer
  /\ CanRemovePair(preferences, Proposee, ProposeeProposalFrom)
  /\ proposal_record' =
       [RecordProposal(proposal_record, current_proposer, Proposee)
          EXCEPT ![ProposeeProposalFrom] = <<Unset, @[2]>>]
  /\ proposers' = Append(proposers, ProposeeProposalFrom)
  /\ preferences' = RemovePair(preferences, Proposee, ProposeeProposalFrom)
  /\ EndFor
  /\ UNCHANGED <<input, keys, labels, reference, participant, p, q,
                 elimination_pairs, result>>

\* The candidate prefers the new proposer: it accepts, the proposer it held is
\* reset, put at the front of the queue and the pair is removed from both lists.
AcceptBetter ==
  /\ AtProposal
  /\ ~Falsy(ProposeeProposalFrom)
  /\ In(ProposeeProposalFrom, preferences[Proposee])
  /\ PrefersNewProposer
  /\ CanRemovePair(preferences, Proposee, ProposeeProposalFrom)
  /\ proposal_record' =
       [RecordProposal(proposal_record, current_proposer, Proposee)
          EXCEPT ![ProposeeProposalFrom] = <<Unset, @[2]>>]
  /\ proposers' = <<ProposeeProposalFrom>> \o proposers
  /\ preferences' = RemovePair(preferences, Proposee, ProposeeProposalFrom)
  /\ EndFor
  /\ UNCHANGED <<input, keys, labels, reference, participant, p, q,
                 elimination_pairs, result>>

\* Faulty variant of Reject: the turned-down pair stays in both lists.
RejectKeepsPair ==
  /\ AtProposal
  /\ ~Falsy(ProposeeProposalFrom)
  /\ In(ProposeeProposalFrom, preferences[Proposee])
  /\ ~PrefersNewProposer
  /\ CanRemovePair(preferences, Proposee, current_proposer)
  /\ idx' = idx + 1
  /\ UNCHANGED <<input, keys, labels, reference, preferences, proposal_record,
                 proposers, current_proposer, current_proposer_prefs,
                 participant, p, q, elimination_pairs, result, pc>>

\* The candidate prefers the proposer it holds: the pair is removed from both
\* lists and the proposer goes on to its next candidate.
Reject ==
  /\ AtProposal
  /\ ~Falsy(ProposeeProposalFrom)
  /\ In(ProposeeProposalFrom, preferences[Proposee])
  /\ ~PrefersNewProposer
  /\ CanRemovePair(preferences, Proposee, current_proposer)
  /\ preferences' = RemovePair(preferences, Proposee, current_proposer)
  /\ idx' = idx + 1
  /\ UNCHANGED <<input, keys, labels, reference, proposal_record, proposers,
                 current_proposer, current_proposer_prefs, participant, p, q,
                 elimination_pairs, result, pc>>

\* The for loop ran off the end of the copy: the proposer stays without a
\* proposal and the while loop goes on.
ExhaustList ==
  /\ pc = "for"
  /\ idx > Len(current_proposer_prefs)
  /\ EndFor
  /\ UNCHANGED <<input, keys, labels, reference, preferences, proposal_record,
                 proposers, participant, p, q, elimination_pairs, result>>

\* The queue is empty: make_proposals returns the record.
ReturnProposals ==
  /\ pc = "while"
  /\ proposers = <<>>
  /\ pc' = "check"
  /\ UNCHANGED <<input, keys, labels, reference, preferences, proposal_record,
                 proposers, current_proposer, current_proposer_prefs, idx,
                 participant, p, q, elimination_pairs, result>>

\* ------------------------------------------------------------------------
\* is_stable_table
\* ------------------------------------------------------------------------

RECURSIVE StableFrom(_, _, _, _)
\* The for loop of is_stable_table from the i-th value of the record on, with
\* the two sets it has collected so far.
StableFrom(rec, i, seen_proposers, seen_proposees) ==
  IF i > Len(keys) THEN TRUE
  ELSE LET proposee == rec[keys[i]][1]
           proposer == rec[keys[i]][2]
       IN IF Falsy(proposee) \/ Falsy(proposer) THEN FALSE
          ELSE IF proposer \in seen_proposers \/ proposee \in seen_proposees THEN FALSE
          ELSE StableFrom(rec, i + 1, seen_proposers \cup {proposer},
                          seen_proposees \cup {proposee})

\* Faulty variant of is_stable_table: a record is accepted only when every
\* participant holds the proposer it proposed to.
is_mutual_table(rec) ==
  \A k \in DOMAIN rec : ~Falsy(rec[k][1]) /\ rec[k][1] = rec[k][2]

is_stable_table(rec) == StableFrom(rec, 1, {}, {})

\* if not is_stable_table(proposal_record): return UnstableTableError("...")
RejectUnstableTable ==
  /\ pc = "check"
  /\ ~is_stable_table(proposal_record)
  /\ result' = ReturnedInstance
  /\ pc' = "done"
  /\ UNCHANGED <<input, keys, labels, reference, preferences, proposal_record,
                 proposers, current_proposer, current_proposer_prefs, idx,
                 participant, p, q, elimination_pairs>>

\* The record is accepted: remove_trailing_prefs is called.
AcceptStableTable ==
  /\ pc = "check"
  /\ is_stable_table(proposal_record)
  /\ idx' = 1
  /\ pc' = "trim"
  /\ UNCHANGED <<input, keys, labels, reference, preferences, proposal_record,
                 proposers, current_proposer, current_proposer_prefs,
                 participant, p, q, elimination_pairs, result>>

\* ------------------------------------------------------------------------
\* remove_trailing_prefs
\* ------------------------------------------------------------------------

\* The proposer the for loop of remove_trailing_prefs is at, and its target.
TrimProposer == keys[idx]

TrimProposee == proposal_record[TrimProposer][1]

\* Faulty variant of TrimSuccessors: the slice starts at the proposer itself
\* (proposee_prefs[proposer_ranking:]).
TrimSuccessorsFromProposer(prefs, proposee, proposer) ==
  SliceFrom(prefs[proposee], Index(prefs[proposee], proposer) - 1)

\* successors = proposee_prefs[proposer_ranking+1:]
TrimSuccessors(prefs, proposee, proposer) ==
  SliceFrom(prefs[proposee], Index(prefs[proposee], proposer))

RECURSIVE RemoveFromSuccessors(_, _, _, _)
\* for successor in successors: if proposee in preferences[successor]:
\* preferences[successor].remove(proposee); from the k-th successor on.  The
\* loop stops at a successor that is no key of the table (KeyError).
RemoveFromSuccessors(prefs, successors, k, proposee) ==
  WithValue(prefs, LAMBDA t :
    IF k > Len(successors) \/ successors[k] \notin DOMAIN t THEN t
    ELSE RemoveFromSuccessors(
           IF In(proposee, t[successors[k]])
           THEN [t EXCEPT ![successors[k]] = Remove(@, proposee)]
           ELSE t,
           successors, k + 1, proposee))

\* Faulty variant of TrimmedFor: the proposee's list is cut, but the proposee
\* stays in the lists of those cut off.
TrimmedForCutOnly(prefs, proposee, proposer) ==
  [prefs EXCEPT ![proposee] = SliceTo(@, Index(prefs[proposee], proposer))]

\* One pass of the for loop of remove_trailing_prefs: the proposee's list is
\* cut after the proposer and the proposee is removed from the lists of those
\* cut off.
TrimmedFor(prefs, proposee, proposer) ==
  LET ranking == Index(prefs[proposee], proposer)
      cut == [prefs EXCEPT ![proposee] = SliceTo(@, ranking)]
  IN RemoveFromSuccessors(cut, TrimSuccessors(prefs, proposee, proposer), 1, proposee)

\* The lookups of one pass succeed.
TrimLookupsOk ==
  /\ TrimProposee \in DOMAIN preferences
  /\ In(TrimProposer, preferences[TrimProposee])
  /\ Range(TrimSuccessors(preferences, TrimProposee, TrimProposer)) \subseteq DOMAIN preferences

TrimOne ==
  /\ pc = "trim"
  /\ idx <= Len(keys)
  /\ TrimLookupsOk
  /\ preferences' = TrimmedFor(preferences, TrimProposee, TrimProposer)
  /\ idx' = idx + 1
  /\ UNCHANGED <<input, keys, labels, reference, proposal_record, proposers,
                 current_proposer, current_proposer_prefs, participant, p, q,
                 elimination_pairs, result, pc>>

\* remove_trailing_prefs returns and get_stable_match starts with the first
\* participant of the table.
CallGetStableMatch ==
  /\ pc = "trim"
  /\ idx > Len(keys)
  /\ participant' = keys[1]
  /\ p' = <<keys[1]>>
  /\ q' = <<>>
  /\ idx' = 0
  /\ pc' = "p2while"
  /\ UNCHANGED <<input, keys, labels, reference, preferences, proposal_record,
                 proposers, current_proposer, current_proposer_prefs,
                 elimination_pairs, result>>

\* ------------------------------------------------------------------------
\* Phase 2: get_stable_match
\* ------------------------------------------------------------------------

Last(s) == s[Len(s)]

\* The lookups of one call of find_cycle succeed: p[-1] is a key with a second
\* entry, and that entry is a key with a non-empty list.
FindCycleLookupsOk ==
  /\ Last(p) \in DOMAIN preferences
  /\ Len(preferences[Last(p)]) >= 2
  /\ preferences[Last(p)][2] \in DOMAIN preferences
  /\ preferences[preferences[Last(p)][2]] # <<>>

\* while len(preferences[participant]) > 1: a rotation search starts.
BeginSearch ==
  /\ pc = "p2while"
  /\ Len(preferences[participant]) > 1
  /\ pc' = "find_cycle"
  /\ UNCHANGED <<input, keys, labels, reference, preferences, proposal_record,
                 proposers, current_proposer, current_proposer_prefs, idx,
                 participant, p, q, elimination_pairs, result>>

\* One call of find_cycle: q gets the second entry of p[-1]'s list, p gets the
\* last entry of that one's list; the search ends when that entry is already
\* in p, and recurses otherwise.
FindCycleStep ==
  /\ pc = "find_cycle"
  /\ FindCycleLookupsOk
  /\ LET new_q == preferences[Last(p)][2]
         new_p == Last(preferences[new_q])
     IN /\ q' = Append(q, new_q)
        /\ p' = Append(p, new_p)
        /\ pc' = IF In(new_p, p) THEN "cycle" ELSE "find_cycle"
  /\ UNCHANGED <<input, keys, labels, reference, preferences, proposal_record,
                 proposers, current_proposer, current_proposer_prefs, idx,
                 participant, elimination_pairs, result>>

\* start = p.index(p[-1]);
\* cycle = [(p[i + 1], q[i]) for i in range(start, len(p) - 1)]
Cycle(pp, qq) ==
  LET start == Index(pp, Last(pp))
  IN [j \in 1..(Len(pp) - start) |-> <<pp[start + j], qq[start + j - 1]>>]

\* Faulty variant of FirstPref: the pointer is taken from the pair itself
\* (cycle[i][0]) instead of the pair before it.
FirstPrefOfSamePair(cycle, i) == cycle[i][1]

\* first_pref = cycle[(i - 1) % len(cycle)][0], for the i-th pair (1-based).
FirstPref(cycle, i) == cycle[((i - 2) % Len(cycle)) + 1][1]

\* Faulty variant of CycleSuccessors: the slice starts one entry late
\* (index(first_pref) + 2), so the entry right after first_pref is kept.
CycleSuccessorsFromSecond(cycle, prefs, i) ==
  SliceFrom(prefs[cycle[i][2]], Index(prefs[cycle[i][2]], FirstPref(cycle, i)) + 1)

\* successors = participant_prefs[participant_prefs.index(first_pref) + 1:]
CycleSuccessors(cycle, prefs, i) ==
  SliceFrom(prefs[cycle[i][2]], Index(prefs[cycle[i][2]], FirstPref(cycle, i)))

RECURSIVE AddPairs(_, _, _, _)
\* Faulty variant of AddPairs: the membership test is turned round, so a pair
\* is appended only when it is already there.
AddPairsInverted(pairs, owner, successors, k) ==
  IF k > Len(successors) THEN pairs
  ELSE WithValue(pairs, LAMBDA ps :
         AddPairs(
           IF In(<<owner, successors[k]>>, ps) \/ In(<<successors[k], owner>>, ps)
           THEN Append(ps, <<owner, successors[k]>>)
           ELSE ps,
           owner, successors, k + 1))

\* for successor in successors: append (participant, successor) unless the
\* pair or its reverse is already in pairs; from the k-th successor on.
AddPairs(pairs, owner, successors, k) ==
  IF k > Len(successors) THEN pairs
  ELSE WithValue(pairs, LAMBDA ps :
         AddPairs(
           IF In(<<owner, successors[k]>>, ps) \/ In(<<successors[k], owner>>, ps)
           THEN ps
           ELSE Append(ps, <<owner, successors[k]>>),
           owner, successors, k + 1))

RECURSIVE PairsFrom(_, _, _, _)
\* The for loop of find_pairs_to_remove from the i-th pair of the cycle on.
PairsFrom(cycle, prefs, i, pairs) ==
  IF i > Len(cycle) THEN pairs
  ELSE PairsFrom(cycle, prefs, i + 1,
                 AddPairs(pairs, cycle[i][2], CycleSuccessors(cycle, prefs, i), 1))

find_pairs_to_remove(cycle, prefs) == PairsFrom(cycle, prefs, 1, <<>>)

\* Every lookup of find_pairs_to_remove succeeds: each owner is a key and its
\* first_pref is in its list.
FindPairsLookupsOk(cycle, prefs) ==
  \A i \in 1..Len(cycle) :
    /\ cycle[i][2] \in DOMAIN prefs
    /\ In(FirstPref(cycle, i), prefs[cycle[i][2]])

\* The rotation is closed: the cycle is built and the pairs to remove are
\* computed; remove_pairs is called with them.
FindPairsToRemove ==
  /\ pc = "cycle"
  /\ FindPairsLookupsOk(Cycle(p, q), preferences)
  /\ elimination_pairs' = find_pairs_to_remove(Cycle(p, q), preferences)
  /\ idx' = 1
  /\ pc' = "remove"
  /\ UNCHANGED <<input, keys, labels, reference, preferences, proposal_record,
                 proposers, current_proposer, current_proposer_prefs,
                 participant, p, q, result>>

\* The pair the for loop of remove_pairs is at.
Left == elimination_pairs[idx][1]

Right == elimination_pairs[idx][2]

\* The pair can be removed: both are keys and each is in the other's list.
RemoveLookupsOk ==
  /\ Left \in DOMAIN preferences
  /\ Right \in DOMAIN preferences
  /\ CanRemovePair(preferences, Left, Right)

\* Faulty variant of EmptiesAList: the test for an exhausted list is left out.
NeverEmptiesAList(prefs, left, right) == FALSE

\* Faulty variant of EmptiesAList: a list left with one entry counts as
\* exhausted.
LeavesAtMostOne(prefs, left, right) ==
  LET after == RemovePair(prefs, left, right)
  IN Len(after[left]) <= 1 \/ Len(after[right]) <= 1

\* if not preferences[left] or not preferences[right], after the removal.
EmptiesAList(prefs, left, right) ==
  LET after == RemovePair(prefs, left, right)
  IN after[left] = <<>> \/ after[right] = <<>>

\* One pass of the for loop of remove_pairs that leaves both lists non-empty.
RemoveOnePair ==
  /\ pc = "remove"
  /\ idx <= Len(elimination_pairs)
  /\ RemoveLookupsOk
  /\ ~EmptiesAList(preferences, Left, Right)
  /\ preferences' = RemovePair(preferences, Left, Right)
  /\ idx' = idx + 1
  /\ UNCHANGED <<input, keys, labels, reference, proposal_record, proposers,
                 current_proposer, current_proposer_prefs, participant, p, q,
                 elimination_pairs, result, pc>>

\* Faulty variant of RemoveExhausts: nothing is raised when a removal empties
\* a list; the loop of remove_pairs goes on to its next pair.
RemoveExhaustsCarriesOn ==
  /\ pc = "remove"
  /\ idx <= Len(elimination_pairs)
  /\ RemoveLookupsOk
  /\ EmptiesAList(preferences, Left, Right)
  /\ preferences' = RemovePair(preferences, Left, Right)
  /\ idx' = idx + 1
  /\ UNCHANGED <<input, keys, labels, reference, proposal_record, proposers,
                 current_proposer, current_proposer_prefs, participant, p, q,
                 elimination_pairs, result, pc>>

\* A removal empties a list: remove_pairs raises UnstableTableError, which
\* get_stable_match catches; it returns the class UnstableTableError, and
\* find_stable_pairings returns that value as it is.
RemoveExhausts ==
  /\ pc = "remove"
  /\ idx <= Len(elimination_pairs)
  /\ RemoveLookupsOk
  /\ EmptiesAList(preferences, Left, Right)
  /\ preferences' = RemovePair(preferences, Left, Right)
  /\ result' = ReturnedClass
  /\ pc' = "done"
  /\ UNCHANGED <<input, keys, labels, reference, proposal_record, proposers,
                 current_proposer, current_proposer_prefs, idx, participant,
                 p, q, elimination_pairs>>

\* remove_pairs returns: p and q are reset and the while test is next.
RemovePairsReturn ==
  /\ pc = "remove"
  /\ idx > Len(elimination_pairs)
  /\ p' = <<participant>>
  /\ q' = <<>>
  /\ idx' = 0
  /\ pc' = "p2while"
  /\ UNCHANGED <<input, keys, labels, reference, preferences, proposal_record,
                 proposers, current_proposer, current_proposer_prefs,
                 participant, elimination_pairs, result>>

\* The participant's list has at most one entry and it is not the last key:
\* the for loop of get_stable_match goes to the next participant.
NextParticipant ==
  /\ pc = "p2while"
  /\ Len(preferences[participant]) <= 1
  /\ Index(keys, participant) < Len(keys)
  /\ participant' = keys[Index(keys, participant) + 1]
  /\ p' = <<keys[Index(keys, participant) + 1]>>
  /\ q' = <<>>
  /\ UNCHANGED <<input, keys, labels, reference, preferences, proposal_record,
                 proposers, current_proposer, current_proposer_prefs, idx,
                 elimination_pairs, result, pc>>

\* The for loop is over: get_stable_match returns preferences, and so does
\* find_stable_pairings.
ReturnPreferences ==
  /\ pc = "p2while"
  /\ Len(preferences[participant]) <= 1
  /\ Index(keys, participant) = Len(keys)
  /\ result' = ReturnedTable
  /\ pc' = "done"
  /\ UNCHANGED <<input, keys, labels, reference, preferences, proposal_record,
                 proposers, current_proposer, current_proposer_prefs, idx,
                 participant, p, q, elimination_pairs>>

\* ------------------------------------------------------------------------
\* Failed lookups: KeyError, ValueError and IndexError leave the call uncaught
\* ------------------------------------------------------------------------

\* The exception one pass of the for loop of make_proposals raises ("" when
\* it raises none): preferences[proposee] (line 59), the two index calls
\* (lines 60 and 75) and the second remove of each pair (lines 86 and 93).
ProposeError ==
  IF Proposee \notin DOMAIN preferences THEN "KeyError"
  ELSE IF ~In(current_proposer, preferences[Proposee]) THEN "ValueError"
  ELSE IF Falsy(ProposeeProposalFrom) THEN ""
  ELSE IF ~In(ProposeeProposalFrom, preferences[Proposee]) THEN "ValueError"
  ELSE IF PrefersNewProposer
       THEN (IF CanRemovePair(preferences, Proposee, ProposeeProposalFrom)
             THEN "" ELSE "ValueError")
  ELSE IF CanRemovePair(preferences, Proposee, current_proposer) THEN ""
  ELSE "ValueError"

\* The raise happens at the second remove of a pair (line 86 or 93), after the
\* statements before it have taken effect.
RaisedAtSecondRemove ==
  /\ Proposee \in DOMAIN preferences
  /\ In(current_proposer, preferences[Proposee])
  /\ ~Falsy(ProposeeProposalFrom)
  /\ In(ProposeeProposalFrom, preferences[Proposee])

RaiseInMakeProposals ==
  /\ pc = "for"
  /\ idx <= Len(current_proposer_prefs)
  /\ ProposeError # ""
  /\ IF RaisedAtSecondRemove /\ PrefersNewProposer
     THEN /\ proposal_record' =
               [RecordProposal(proposal_record, current_proposer, Proposee)
                  EXCEPT ![ProposeeProposalFrom] = <<Unset, @[2]>>]
          /\ proposers' = <<ProposeeProposalFrom>> \o proposers
          /\ preferences' =
               [preferences EXCEPT ![Proposee] = Remove(@, ProposeeProposalFrom)]
     ELSE IF RaisedAtSecondRemove
     THEN /\ preferences' =
               [preferences EXCEPT ![Proposee] = Remove(@, current_proposer)]
          /\ UNCHANGED <<proposal_record, proposers>>
     ELSE UNCHANGED <<proposal_record, proposers, preferences>>
  /\ result' = Raised(ProposeError)
  /\ pc' = "done"
  /\ UNCHANGED <<input, keys, labels, reference, current_proposer,
                 current_proposer_prefs, idx, participant, p, q,
                 elimination_pairs>>

\* remove_trailing_prefs: proposee_prefs.index(proposer) (line 175) or
\* preferences[successor] (line 184) fails.
RaiseInTrim ==
  /\ pc = "trim"
  /\ idx <= Len(keys)
  /\ ~TrimLookupsOk
  /\ IF In(TrimProposer, preferences[TrimProposee])
     THEN /\ preferences' = TrimmedFor(preferences, TrimProposee, TrimProposer)
          /\ result' = Raised("KeyError")
     ELSE /\ result' = Raised("ValueError")
          /\ UNCHANGED preferences
  /\ pc' = "done"
  /\ UNCHANGED <<input, keys, labels, reference, proposal_record, proposers,
                 current_proposer, current_proposer_prefs, idx, participant,
                 p, q, elimination_pairs>>

\* find_cycle: preferences[p[-1]][1] (line 235) or q_pref_list[-1] (line 238)
\* fails.
FindCycleError ==
  IF Last(p) \notin DOMAIN preferences THEN "KeyError"
  ELSE IF Len(preferences[Last(p)]) < 2 THEN "IndexError"
  ELSE IF preferences[Last(p)][2] \notin DOMAIN preferences THEN "KeyError"
  ELSE "IndexError"

RaiseInFindCycle ==
  /\ pc = "find_cycle"
  /\ ~FindCycleLookupsOk
  /\ result' = Raised(FindCycleError)
  /\ pc' = "done"
  /\ UNCHANGED <<input, keys, labels, reference, preferences, proposal_record,
                 proposers, current_proposer, current_proposer_prefs, idx,
                 participant, p, q, elimination_pairs>>

\* find_pairs_to_remove: preferences[participant] (line 296) or
\* participant_prefs.index(first_pref) (line 300) fails, at the first pair of
\* the cycle where one does.
FindPairsError(cycle, prefs) ==
  LET bad == {i \in 1..Len(cycle) :
                \/ cycle[i][2] \notin DOMAIN prefs
                \/ ~In(FirstPref(cycle, i), prefs[cycle[i][2]])}
      first == CHOOSE i \in bad : \A j \in bad : i <= j
  IN IF cycle[first][2] \notin DOMAIN prefs THEN "KeyError" ELSE "ValueError"

RaiseInFindPairs ==
  /\ pc = "cycle"
  /\ ~FindPairsLookupsOk(Cycle(p, q), preferences)
  /\ result' = Raised(FindPairsError(Cycle(p, q), preferences))
  /\ pc' = "done"
  /\ UNCHANGED <<input, keys, labels, reference, preferences, proposal_record,
                 proposers, current_proposer, current_proposer_prefs, idx,
                 participant, p, q, elimination_pairs>>

\* remove_pairs: one of the two removes (lines 335, 336) fails; the first
\* remove has taken effect when the second one raises.
RaiseInRemovePairs ==
  /\ pc = "remove"
  /\ idx <= Len(elimination_pairs)
  /\ ~RemoveLookupsOk
  /\ IF Left \notin DOMAIN preferences
     THEN result' = Raised("KeyError") /\ UNCHANGED preferences
     ELSE IF ~In(Right, preferences[Left])
     THEN result' = Raised("ValueError") /\ UNCHANGED preferences
     ELSE /\ preferences' = [preferences EXCEPT ![Left] = Remove(@, Right)]
          /\ result' = Raised(IF Right \notin DOMAIN preferences
                              THEN "KeyError" ELSE "ValueError")
  /\ pc' = "done"
  /\ UNCHANGED <<input, keys, labels, reference, proposal_record, proposers,
                 current_proposer, current_proposer_prefs, idx, participant,
                 p, q, elimination_pairs>>

\* ------------------------------------------------------------------------
\* Specifications
\* ------------------------------------------------------------------------

Next ==
  \/ CallMakeProposals
  \/ PopProposer
  \/ AcceptFirst
  \/ AcceptBetter
  \/ Reject
  \/ ExhaustList
  \/ ReturnProposals
  \/ RejectUnstableTable
  \/ AcceptStableTable
  \/ TrimOne
  \/ CallGetStableMatch
  \/ BeginSearch
  \/ FindCycleStep
  \/ FindPairsToRemove
  \/ RemoveOnePair
  \/ RemoveExhausts
  \/ RemovePairsReturn
  \/ NextParticipant
  \/ ReturnPreferences

Spec == Init /\ [][Next]_vars

\* The program on any table, failed lookups included.
NextAny ==
  \/ Next
  \/ RaiseInMakeProposals
  \/ RaiseInTrim
  \/ RaiseInFindCycle
  \/ RaiseInFindPairs
  \/ RaiseInRemovePairs

\* Any table as input, malformed ones included.
SpecAny == InitAny /\ [][NextAny]_vars

\* A sequential program takes its next step as long as it has one.
FairSpec == Spec /\ WF_vars(Next)

\* ------------------------------------------------------------------------
\* A second call, on the same table under other names
\* ------------------------------------------------------------------------

\* Table t with every participant k written f[k], in the keys and in the
\* lists; the order of the keys and of each list is kept.
RelabelTable(t, f) ==
  [l \in {f[k] : k \in DOMAIN t} |->
     LET k == CHOOSE j \in DOMAIN t : f[j] = l
     IN [i \in 1..Len(t[k]) |-> f[t[k][i]]]]

\* The renamings tried for a table of n participants: the integers from 0
\* (0, 1, ..), the names in reverse order, and the even numbers from 2.
Relabellings(n) ==
  {[i \in 1..n |-> i - 1], [i \in 1..n |-> n + 1 - i], [i \in 1..n |-> 2 * i]}

\* The caller keeps the outcome of the call that has ended and calls
\* find_stable_pairings again, on the table it started from under other names.
CallOnRelabelled ==
  /\ pc = "done"
  /\ reference = NoReference
  /\ \E f \in Relabellings(Len(keys)) :
       /\ labels' = f
       /\ input' = RelabelTable(input, f)
       /\ preferences' = RelabelTable(input, f)
       /\ keys' = [i \in 1..Len(keys) |-> f[keys[i]]]
  /\ reference' = [result |-> result, preferences |-> preferences]
  /\ proposal_record' = <<>>
  /\ proposers' = <<>>
  /\ current_proposer' = Unset
  /\ current_proposer_prefs' = <<>>
  /\ idx' = 0
  /\ participant' = Unset
  /\ p' = <<>>
  /\ q' = <<>>
  /\ elimination_pairs' = <<>>
  /\ result' = NoResult
  /\ pc' = "call"

NextRelabelled ==
  \/ Next
  \/ CallOnRelabelled

\* Each valid table is run as it is and then once more under other names.
SpecRelabelled == Init /\ [][NextRelabelled]_vars

\* ------------------------------------------------------------------------
\* Stability of a matching under a table (used to state the claims)
\* ------------------------------------------------------------------------

\* x ranks a strictly above b in table t.
RanksAbove(t, x, a, b) == Index(t[x], a) # 0 /\ Index(t[x], a) < Index(t[x], b)

\* a and b are not partners under mu and each ranks the other above its partner.
IsBlockingPair(t, mu, a, b) ==
  /\ a # b
  /\ mu[a] # b
  /\ RanksAbove(t, a, b, mu[a])
  /\ RanksAbove(t, b, a, mu[b])

HasNoBlockingPair(t, mu) ==
  \A a \in DOMAIN t : \A b \in DOMAIN t : ~IsBlockingPair(t, mu, a, b)

RECURSIVE Matchings(_)
\* Every partition of S into pairs, each pair a two-element set.
Matchings(S) ==
  IF S = {} THEN {{}}
  ELSE LET a == CHOOSE x \in S : \A y \in S : x <= y
       IN UNION {{m \cup {{a, b}} : m \in Matchings(S \ {a, b})} : b \in S \ {a}}

\* The partner function of a partition into pairs.
PartnerOf(m, D) == [x \in D |-> CHOOSE y \in D : y # x /\ {x, y} \in m]

\* Table t has a perfect matching without a blocking pair.
HasStableMatching(t) ==
  \E m \in Matchings(DOMAIN t) : HasNoBlockingPair(t, PartnerOf(m, DOMAIN t))

\* The partner function the returned table stands for.
Partner ==
  [x \in Participants |-> IF preferences[x] = <<>> THEN Unset ELSE preferences[x][1]]

ReturnedMatching == pc = "done" /\ result = ReturnedTable

ReturnedFailure == pc = "done" /\ result \in {ReturnedInstance, ReturnedClass}

RECURSIVE IsSubsequence(_, _)
\* s is t with some entries removed: no insertion, no reordering.
IsSubsequence(s, t) ==
  IF s = <<>> THEN TRUE
  ELSE IF t = <<>> THEN FALSE
  ELSE IF Head(s) = Head(t) THEN IsSubsequence(Tail(s), Tail(t))
  ELSE IsSubsequence(s, Tail(t))

\* ------------------------------------------------------------------------
\* Claims
\* ------------------------------------------------------------------------

\* C1: whenever find_stable_pairings returns a matching for a valid table, no
\* two participants that are not partners each rank the other above their own
\* partner in the original input table.
C1_NoBlockingPair == ReturnedMatching => HasNoBlockingPair(input, Partner)

\* C1 witness: a matching is returned in which some participant is not with
\* the first choice of its input list, so a blocking pair was possible.
C1_Witness ==
  /\ ReturnedMatching
  /\ \E x \in Participants : Partner[x] # input[x][1]

C3_SymmetricMatching ==
  ReturnedMatching =>
    /\ DOMAIN preferences = DOMAIN input
    /\ \A x \in Participants :
         /\ Len(preferences[x]) = 1
         /\ Partner[x] \in Participants \ {x}
         /\ Len(preferences[Partner[x]]) = 1
         /\ Partner[Partner[x]] = x

\* C3 witness: a matching is returned after Phase 2 removed pairs for it.
C3_Witness ==
  /\ ReturnedMatching
  /\ elimination_pairs # <<>>

\* C4: every call on a valid table ends, with a matching or with the
\* no-stable-matching failure.
C4_Terminates == <>(ReturnedMatching \/ ReturnedFailure)

\* C4 witness: a call has ended in which a Phase 1 proposal was turned down
\* and Phase 2 eliminated a rotation.
C4_Witness ==
  /\ ReturnedMatching \/ ReturnedFailure
  /\ Len(elimination_pairs) > 1
  /\ \E k \in Participants : proposal_record[k][1] # input[k][1]

\* C5: the fixtures give the documented results: unstable has no stable
\* pairing; stable_phase1 and stable_phase2 give A-B, C-D; medium gives A-F,
\* B-D, C-E; large gives 1-7, 2-8, 3-6, 4-9, 5-10.
C5_FixtureResults ==
  pc = "done" =>
    /\ input = unstable => ReturnedFailure
    /\ input \in {stable_phase1, stable_phase2} =>
         ReturnedMatching /\ preferences = << <<2>>, <<1>>, <<4>>, <<3>> >>
    /\ input = medium =>
         /\ ReturnedMatching
         /\ preferences = << <<6>>, <<4>>, <<5>>, <<2>>, <<3>>, <<1>> >>
    /\ input = large =>
         /\ ReturnedMatching
         /\ preferences = << <<7>>, <<8>>, <<6>>, <<9>>, <<10>>,
                             <<3>>, <<1>>, <<2>>, <<4>>, <<5>> >>

\* C5 witness: the run on the fixture large has ended.
C5_Witness == pc = "done" /\ input = large

\* C6 (as claimed): a failure found in Phase 2 reaches the caller as the same
\* value, through the same channel, as a failure found by the Phase 1
\* stability check, which is a returned UnstableTableError instance.
C6_FailuresSurfacedIdentically ==
  (pc = "done" /\ result # ReturnedTable) => result = ReturnedInstance

\* C7 (as claimed): after the call has returned, the table the caller passed
\* holds exactly the lists it held before the call.
C7_CallerTableUntouched == pc = "done" => preferences = input

\* C8 (as claimed): for a malformed table no proposal is made and no list is
\* changed, and the call ends by raising InvalidPreferenceTableError.
C8_MalformedRejectedAtEntry ==
  ~IsValidTable(input) =>
    /\ preferences = input
    /\ \A k \in DOMAIN proposal_record : proposal_record[k] = <<Unset, Unset>>
    /\ pc = "done" => result = Raised("InvalidPreferenceTableError")

\* C9: after every step of a run on a valid table (a proposal of Phase 1, a
\* pass of remove_trailing_prefs, a removed pair of Phase 2), b is in a's
\* current list if and only if a is in b's current list.
C9_RemovalSymmetry ==
  \A a \in Participants : \A b \in Participants :
    In(b, preferences[a]) <=> In(a, preferences[b])

\* C9 witness: Phase 1, trimming and Phase 2 have each removed entries.
C9_Witness ==
  /\ pc = "remove"
  /\ idx > 1
  /\ \E k \in Participants : proposal_record[k][1] # input[k][1]
  /\ \E k \in Participants : proposal_record[k][2] # Last(input[k])

\* C10: every step leaves each list a subsequence of what it was before the
\* step (nothing inserted, nothing reordered, never longer), and the set of
\* participants of the table never changes.
C10_OnlyRemovals ==
  [][/\ DOMAIN preferences' = DOMAIN preferences
     /\ \A k \in DOMAIN preferences :
          /\ IsSubsequence(preferences'[k], preferences[k])
          /\ IsSubsequence(preferences'[k], input[k])]_vars

\* C10 witness: a run has ended with some list shorter than in the input.
C10_Witness ==
  /\ pc = "done"
  /\ \E k \in Participants : Len(preferences[k]) < Len(input[k])

\* C11: in Phase 1, a step in which a candidate takes the current proposer in
\* place of the proposer H it held clears H's outgoing proposal and leaves the
\* queue as H followed by what was pending; and every step taken at the while
\* test with a non-empty queue makes the head of the queue the proposer.  So H
\* is the next to propose, before everyone else that is pending.
C11_EvictedProposesNext ==
  [][/\ (/\ AtProposal
         /\ ~Falsy(ProposeeProposalFrom)
         /\ proposal_record'[Proposee][2] = current_proposer)
          => /\ proposal_record'[ProposeeProposalFrom][1] = Unset
             /\ proposers' = <<ProposeeProposalFrom>> \o proposers
             /\ pc' = "while"
     /\ (pc = "while" /\ proposers # <<>>)
          => /\ current_proposer' = Head(proposers)
             /\ proposers' = Tail(proposers)
             /\ pc' = "for"]_vars

\* C11 witness: the while test is reached with a participant at the head of
\* the queue that has proposed before (it is out of table order with the one
\* behind it), has no outgoing proposal and has lost its former candidate,
\* while others are still pending.
C11_Witness ==
  /\ pc = "while"
  /\ Len(proposers) >= 2
  /\ proposers[2] # proposers[1] + 1
  /\ proposal_record[proposers[1]][1] = Unset
  /\ Len(preferences[proposers[1]]) < Len(input[proposers[1]])

\* C12: in Phase 1 nobody proposes to the same candidate twice.  A proposal is
\* only ever made to a candidate that is still in the proposer's current list,
\* that still lists the proposer and that does not hold the proposer already;
\* the step in which C turns P down, or gives up the P it held, takes the pair
\* out of both lists; and an entry that has left a list never comes back.
C12_NeverProposesTwice ==
  /\ [](pc = "for" /\ idx <= Len(current_proposer_prefs) =>
          /\ In(Proposee, preferences[current_proposer])
          /\ In(current_proposer, preferences[Proposee])
          /\ ProposeeProposalFrom # current_proposer)
  /\ [][/\ (AtProposal /\ ~Falsy(ProposeeProposalFrom)) =>
             LET gone == IF proposal_record'[Proposee][2] = current_proposer
                         THEN ProposeeProposalFrom ELSE current_proposer
             IN /\ ~In(gone, preferences'[Proposee])
                /\ ~In(Proposee, preferences'[gone])
        /\ \A a \in Participants : \A b \in Participants :
             ~In(b, preferences[a]) => ~In(b, preferences'[a])]_vars

\* C12 witness: a proposer that had lost candidates before it was popped has
\* just been turned down by the candidate before the one it is at now, and
\* that candidate is gone from its list.
C12_Witness ==
  /\ pc = "for"
  /\ idx >= 2
  /\ idx <= Len(current_proposer_prefs)
  /\ ~In(current_proposer_prefs[idx - 1], preferences[current_proposer])
  /\ Len(current_proposer_prefs) < Len(input[current_proposer])

C14_TrimPostcondition ==
  (pc = "trim" /\ idx > Len(keys)) =>
    \A x \in Participants :
      /\ preferences[x] # <<>>
      /\ Last(preferences[x]) = proposal_record[x][2]
      /\ \A d \in Participants :
           RanksAbove(input, x, proposal_record[x][2], d) =>
             /\ ~In(d, preferences[x])
             /\ ~In(x, preferences[d])

\* C14 witness: remove_trailing_prefs has finished on a table from which
\* Phase 1 removed nothing (everybody's first choice accepted), and the table
\* differs from the input, so the trimming itself has dropped entries.
C14_Witness ==
  /\ pc = "trim"
  /\ idx > Len(keys)
  /\ \A k \in Participants : proposal_record[k][1] = input[k][1]
  /\ preferences # input

\* C15: every round of Phase 2 makes progress.  Whenever remove_pairs is
\* running, the list of pairs find_pairs_to_remove returned for the rotation
\* is not empty; and every pass of the loop of remove_pairs takes an entry out
\* of the table (or ends the run with the failure, having taken one out), so
\* no pass of the while loop of get_stable_match leaves the table as it was.
C15_Phase2Progress ==
  /\ [](pc = "remove" => elimination_pairs # <<>>)
  /\ [][(pc = "remove" /\ idx <= Len(elimination_pairs)) =>
          /\ preferences' # preferences
          /\ \A k \in Participants : Len(preferences'[k]) <= Len(preferences[k])
          /\ pc' = "remove" \/ (pc' = "done" /\ result' = ReturnedClass)]_vars

\* C15 witness: remove_pairs is about to start on the pairs of a rotation
\* that find_cycle reached through a tail (the search went on past the
\* participant it started from), and there are several pairs to remove.
C15_Witness ==
  /\ pc = "remove"
  /\ idx = 1
  /\ Len(elimination_pairs) >= 2
  /\ Len(Cycle(p, q)) < Len(q)

\* C16 (as claimed): identifiers are opaque.  When the call on a renamed
\* table has ended, it has produced the renamed outcome of the call on the
\* table before renaming: the same kind of result and, for a matching, the
\* renamed matching.
C16_IdentifiersOpaque ==
  (pc = "done" /\ reference # NoReference) =>
    /\ result = reference.result
    /\ result = ReturnedTable =>
         preferences = RelabelTable(reference.preferences, labels)

C18_FirstLastDuality ==
  pc \in {"p2while", "find_cycle", "cycle"} =>
    /\ \A x \in Participants : preferences[x] # <<>>
    /\ \A x \in Participants : \A y \in Participants :
         preferences[x][1] = y <=> Last(preferences[y]) = x

\* C18 witness: an elimination round has ended without failure and the while
\* test is next, with a list of more than one entry left, so another rotation
\* search starts from this table.
C18_Witness ==
  /\ pc = "p2while"
  /\ elimination_pairs # <<>>
  /\ p = <<participant>>
  /\ Len(preferences[participant]) > 1

\* C19: on a valid table no lookup fails.  Wherever a pass of a loop is about
\* to run, its lookups succeed: in make_proposals the candidate is a key, the
\* index calls and both removes find their element; in remove_trailing_prefs
\* the index call finds the proposer and every successor is a key; in
\* find_cycle the list of p[-1] has a second entry and the list of that entry
\* has a last one; in find_pairs_to_remove every index call finds first_pref;
\* in remove_pairs both removes find their element.  So no step that raises
\* KeyError, ValueError or IndexError is ever possible, and a run that has
\* ended has returned a matching or the failure.
C19_NoFailedLookup ==
  /\ (pc = "for" /\ idx <= Len(current_proposer_prefs)) => ProposeError = ""
  /\ (pc = "trim" /\ idx <= Len(keys)) => TrimLookupsOk
  /\ pc = "find_cycle" => FindCycleLookupsOk
  /\ pc = "cycle" => FindPairsLookupsOk(Cycle(p, q), preferences)
  /\ (pc = "remove" /\ idx <= Len(elimination_pairs)) => RemoveLookupsOk
  /\ ~ENABLED RaiseInMakeProposals
  /\ ~ENABLED RaiseInTrim
  /\ ~ENABLED RaiseInFindCycle
  /\ ~ENABLED RaiseInFindPairs
  /\ ~ENABLED RaiseInRemovePairs
  /\ pc = "done" => ReturnedMatching \/ ReturnedFailure

\* C19 witness: remove_pairs is in its second round or later on a table that
\* Phase 1 and the trimming have shortened, about to remove a pair whose two
\* list.remove calls both find their element.
C19_Witness ==
  /\ pc = "remove"
  /\ 1 < idx
  /\ idx <= Len(elimination_pairs)
  /\ RemoveLookupsOk
  /\ Len(q) > Len(Cycle(p, q))
  /\ \E k \in Participants : proposal_record[k][1] # input[k][1]

\* C20: a call on a valid table of an odd number of participants, three or
\* more, ends with the no-stable-matching failure (returned by the Phase 1
\* check or after a Phase 2 removal that empties a list); it never returns a
\* table, so no participant is returned unpaired or with an empty list.
C20_OddAlwaysFails ==
  (pc = "done" /\ Len(keys) % 2 = 1 /\ Len(keys) >= 3) =>
    /\ ReturnedFailure
    /\ ~ReturnedMatching

\* C20 witness: the call on a table of five participants has ended with the
\* failure of Phase 2: a removal has emptied a list, after removals that left
\* another participant with a single entry.
C20_Witness ==
  /\ pc = "done"
  /\ Len(keys) = 5
  /\ result = ReturnedClass
  /\ \E k \in Participants : preferences[k] = <<>>
  /\ \E k \in Participants : Len(preferences[k]) = 1

====
